---- MODULE Spec2Model ----
(***************************************************************************)
(* Model of patterns/xrd_profile.py: the Peaks registry (add_peaks,        *)
(* relative_heights, intensity, intensity_factors) and its two detector    *)
(* setups, MonoDetector (new_setup, rings) and EnergyDetector.             *)
(*                                                                         *)
(* Numbers are integers.  q, energies and angles are integer grids; a      *)
(* normalised array (a quotient by a maximum) is kept as the pair of its   *)
(* numerators and its denominator, so that x/max = 1.0 reads num = den     *)
(* and 0/0 (NaN) reads den = 0.                                            *)
(***************************************************************************)
EXTENDS Integers, Sequences, FiniteSets

VARIABLES
    method,       \* self.method: "mono" | "edxd"
    energy,       \* self.energy (mono: beam energy; edxd: the beamline's energies)
    two_theta,    \* self.two_theta
    delta_energy, \* delta_energy captured by the sigma_q closure (mono)
    detector,     \* self.detector: [shape, energy, distance] (mono), "none" (edxd)
    q_range,      \* self.q_range
    materials,    \* self.materials: insertion-ordered, <<[name, b, weight], ...>>
    q0,           \* self.q0:    material -> sequence
    hkl,          \* self.hkl:   material -> sequence
    a,            \* self.a:     material -> sequence
    sigma,        \* self.sigma: material -> sequence
    keys,         \* the keys of q0, hkl, a and sigma, each in its insertion order
    result,       \* the last call: [op, err, ...] with what it returned
    calls,        \* the number of calls made on the object so far
    repeated      \* the last call was add_peaks with the arguments of the call before it

vars == <<method, energy, two_theta, delta_energy, detector, q_range,
          materials, q0, hkl, a, sigma, keys, result, calls, repeated>>

(***************************************************************************)
(* Bounds of the model.                                                    *)
(***************************************************************************)
MaxCalls == 3        \* calls made on one object

Names        == {"Al", "Fe", "Xx"}          \* "Xx" is no known material
BFactors     == {1, 2}
PeakArgs     == {<<1, 1>>, <<2, 2>>}       \* (b, weight)
Energies     == {2, 4}
Distances    == {1, 2}
InitDistances == {1}
Shapes       == {<<4, 4>>, <<4, 2>>, <<2, 4>>}
DeltaEnergies == {1}
Axes         == {"q", "2theta", "energy"}
Backgrounds  == {0, 1}                     \* in fiftieths: 0 and 0.02
RandLevels   == {0, 1}                     \* a sample, in halves: 0.0 and 0.5
Plots        == {TRUE, FALSE}
\* how numpy reads the list [mask] as an index: as the mask itself (before
\* 1.23), or as a two-dimensional boolean array (from 1.23 on)
ListIndexing == {"mask", "array"}
StrainTensors == {<<0, 0, 0>>, <<4, 2, 1>>} \* in twentieths: (0.2, 0.1, 0.05)
\* (background, strain_tensor, phi): phi in units of 45 degrees
IntensityArgs == {<<0, <<0, 0, 0>>, 0>>, <<0, <<4, 2, 1>>, 1>>,
                  <<1, <<0, 0, 0>>, 0>>, <<1, <<4, 2, 1>>, 0>>}
Crops        == {0, 3}                     \* in quarters: 0 and 0.75
Excludes     == {1, 50}                    \* in hundredths: 0.01 and 0.5

(***************************************************************************)
(* Helpers.                                                                *)
(***************************************************************************)
Abs(x) == IF x < 0 THEN -x ELSE x

SetMax(S) == CHOOSE x \in S : \A y \in S : y <= x

Range(s) == {s[i] : i \in DOMAIN s}

RECURSIVE SeqSum(_)
SeqSum(s) == IF s = <<>> THEN 0 ELSE Head(s) + SeqSum(Tail(s))

RECURSIVE Concat(_)
Concat(ss) == IF ss = <<>> THEN <<>> ELSE Head(ss) \o Concat(Tail(ss))

\* d[k] = v on a dict kept as a function
Put(d, k, v) == [x \in (DOMAIN d) \cup {k} |-> IF x = k THEN v ELSE d[x]]

EmptyDict == [x \in {} |-> <<>>]

\* the keys of a dict after d[k] = v: a new key goes last, a known key stays
PutKey(ks, k) == IF k \in Range(ks) THEN ks ELSE Append(ks, k)

EmptyKeys == [q0 |-> <<>>, hkl |-> <<>>, a |-> <<>>, sigma |-> <<>>]

\* np.linspace(0, stop, num)
linspace(stop, num) ==
    [i \in 1..num |-> IF num = 1 THEN 0 ELSE ((i - 1) * stop) \div (num - 1)]

(***************************************************************************)
(* conversions: e_to_q, q_to_e, q_to_tth.  Angles are in units in which a  *)
(* scattering angle is 12 q / E.                                           *)
(***************************************************************************)
q_to_tth(q, e) == (12 * q) \div e

e_to_q(e, tth) == (e * tth) \div 12

q_to_e(q, tth) == (12 * q) \div tth

(***************************************************************************)
(* intensity_factors module: positive factors, decreasing in q (or angle). *)
(***************************************************************************)
PeakTable ==
    [Al |-> << [q |-> 7,  m |-> 8,  hkl |-> "111"],
               [q |-> 8,  m |-> 6,  hkl |-> "200"],
               [q |-> 11, m |-> 12, hkl |-> "220"] >>,
     Fe |-> << [q |-> 9,  m |-> 12, hkl |-> "110"],
               [q |-> 13, m |-> 6,  hkl |-> "200"],
               [q |-> 16, m |-> 24, hkl |-> "211"] >>]

AtomicNumber == [Al |-> 13, Fe |-> 26]

lp_factor(tth) == 200 \div (4 + tth)

scattering_factor(material, q) == (AtomicNumber[material] * 20) \div (20 + q)

temperature_factor(q, b) == 160 \div (16 + (b * q * q) \div 16)

(***************************************************************************)
(* multiplicity.peak_details(q_max, material): the reflections below       *)
(* q_max, in ascending q; it fails for an unknown material and when no     *)
(* reflection lies below q_max.                                            *)
(***************************************************************************)
peak_details(q_max, material) ==
    IF material \notin DOMAIN PeakTable
    THEN [err |-> "UnknownMaterialError", peaks |-> <<>>]
    ELSE LET ps == SelectSeq(PeakTable[material], LAMBDA p : p.q < q_max)
         IN  IF ps = <<>>
             THEN [err |-> "UnknownMaterialError", peaks |-> <<>>]
             ELSE [err |-> "none", peaks |-> ps]

(***************************************************************************)
(* detectors.BaseDetector: per-pixel radius, q and azimuth of a detector   *)
(* of shape (H, W) set up at an energy and a sample-to-detector distance.  *)
(* Offsets from the centre are in half pixels.                             *)
(***************************************************************************)
det_dy(shape, i) == 2 * i - shape[1] - 1
det_dx(shape, j) == 2 * j - shape[2] - 1

\* int(x ** 0.5)
isqrt(x) == CHOOSE r \in 0..x : r * r <= x /\ x < (r + 1) * (r + 1)

det_r(shape, i, j) ==
    isqrt(det_dy(shape, i) * det_dy(shape, i) + det_dx(shape, j) * det_dx(shape, j))

det_q(det, i, j) ==
    e_to_q(det.energy, (12 * det_r(det.shape, i, j)) \div det.distance)

\* azimuth in units of 45 degrees: 0, 1, 2, 3
det_phi(shape, i, j) ==
    LET dy == det_dy(shape, i)
        dx == det_dx(shape, j)
    IN  IF Abs(dx) > Abs(dy) THEN 0
        ELSE IF Abs(dy) > Abs(dx) THEN 2
        ELSE IF dx * dy >= 0 THEN 1 ELSE 3

Pixels(shape) == (1..shape[1]) \X (1..shape[2])

det_r_max(shape) == SetMax({det_r(shape, p[1], p[2]) : p \in Pixels(shape)})

det_q_max(det) == SetMax({det_q(det, p[1], p[2]) : p \in Pixels(det.shape)})

\* BaseDetector.setup(energy, distance)
detector_setup(det, e, distance) ==
    [shape |-> det.shape, energy |-> e, distance |-> distance]

(***************************************************************************)
(* beamline_details.edxd_info['i12'].                                      *)
(***************************************************************************)
edxd_info ==
    [energy |-> <<4, 8, 12>>,
     flux   |-> <<10, 30, 20>>,
     res_e  |-> [energy |-> <<4, 12>>, delta |-> <<1, 1>>],   \* delta in quarters
     bins   |-> 4]

\* InterpolatedUnivariateSpline(xs, ys, k=1, ext=3): piecewise linear through
\* the knots, the boundary value outside them
spline(xs, ys, x) ==
    IF x <= xs[1] THEN ys[1]
    ELSE IF x >= xs[Len(xs)] THEN ys[Len(ys)]
    ELSE LET k == CHOOSE k \in 1..(Len(xs) - 1) : xs[k] <= x /\ x < xs[k + 1]
         IN  ys[k] + ((ys[k + 1] - ys[k]) * (x - xs[k])) \div (xs[k + 1] - xs[k])

(***************************************************************************)
(* strain_funcs: strain_trans and strained_gaussians.  Strain-tensor       *)
(* components are in twentieths, a resolved strain in fortieths; phi is in *)
(* units of 45 degrees.                                                    *)
(***************************************************************************)
Cos2x2 == <<2, 1, 0, 1>>     \* 2 cos(phi)^2 at phi = 0, 45, 90, 135 degrees
Sin2x2 == <<0, 1, 2, 1>>     \* 2 sin(phi)^2
SinDbl == <<0, 1, 0, -1>>    \* sin(2 phi)

strain_trans(e_xx, e_yy, e_xy, phi) ==
    e_xx * Cos2x2[phi + 1] + e_yy * Sin2x2[phi + 1] + 2 * e_xy * SinDbl[phi + 1]

\* a * exp(-0.5 * ((x - q0 * (1 + strain)) / sigma) ** 2): the height at the
\* centre, falling with the distance in sigmas and 0 (underflow) in the tail
gaussian(x, a_k, q0_k, sigma_k, strain) ==
    LET d == Abs(x - (q0_k * (40 + strain)) \div 40)
    IN  IF d = 0 THEN a_k
        ELSE IF d <= sigma_k THEN a_k \div 2
        ELSE IF d <= 2 * sigma_k THEN a_k \div 8
        ELSE 0

\* the sum over the peaks, at one point x
strained_gaussians(x, as, q0s, sigmas, strain) ==
    SeqSum([k \in 1..Len(as) |-> gaussian(x, as[k], q0s[k], sigmas[k], strain)])

\* np.random.rand(...) for n samples: the arrays it may return, every sample
\* drawn on its own (in halves)
rand(n) == [1..n -> RandLevels]

(***************************************************************************)
(* The object.                                                             *)
(***************************************************************************)
Self ==
    [method |-> method, energy |-> energy, two_theta |-> two_theta,
     delta_energy |-> delta_energy, detector |-> detector,
     q_range |-> q_range, materials |-> materials,
     q0 |-> q0, hkl |-> hkl, a |-> a, sigma |-> sigma, keys |-> keys]

\* the keys of self.materials, in insertion order
MaterialNames(mats) == [k \in 1..Len(mats) |-> mats[k].name]

\* self.materials[material] = {'b': b, 'weight': weight}
SetMaterial(mats, material, b, weight) ==
    IF material \in Range(MaterialNames(mats))
    THEN [k \in 1..Len(mats) |->
            IF mats[k].name = material
            THEN [name |-> material, b |-> b, weight |-> weight]
            ELSE mats[k]]
    ELSE Append(mats, [name |-> material, b |-> b, weight |-> weight])

\* for i in self.<dict>: the keys of that dict, in its own insertion order
KeysInOrder(self, dict) == self.keys[dict]

\* np.concatenate([self.<dict>[i] for i in self.<dict>])
Flatten(self, dict) ==
    LET ks == KeysInOrder(self, dict)
    IN  Concat([k \in 1..Len(ks) |-> self[dict][ks[k]]])

\* MonoDetector: lambda q: e_to_q(delta_energy, q_to_tth(q, self.energy))
\* EnergyDetector: InterpolatedUnivariateSpline(*q_res, k=1, ext=3)
sigma_q(self, q) ==
    IF self.method = "mono"
    THEN e_to_q(self.delta_energy, q_to_tth(q, self.energy))
    ELSE LET e_res == edxd_info.res_e
             delta_e == [k \in 1..Len(e_res.energy) |->
                            (e_res.energy[k] * e_res.delta[k]) \div 4]
         IN  spline([k \in 1..Len(e_res.energy) |->
                        e_to_q(e_res.energy[k], self.two_theta)],
                    [k \in 1..Len(delta_e) |-> e_to_q(delta_e[k], self.two_theta)],
                    q)

\* EnergyDetector: InterpolatedUnivariateSpline(q, flux, k=1, ext=3)
flux_q(self, q) ==
    spline([k \in 1..Len(self.energy) |-> e_to_q(self.energy[k], self.two_theta)],
           edxd_info.flux, q)

\* MonoDetector: lambda x: q_to_tth(x, self.energy) * 180 / np.pi
\* EnergyDetector: lambda x: q_to_e(x, self.two_theta)
convert(self, x) ==
    IF self.method = "mono"
    THEN (q_to_tth(x, self.energy) * 180) \div 3
    ELSE q_to_e(x, self.two_theta)

\* valid, with both secondary axes in either mode
valid_any_mode(self) == {"q", "2theta", "energy"}

\* valid = ['q'] + ['2theta' if self.method == 'mono' else 'energy']
valid(self) == {"q"} \cup {IF self.method = "mono" THEN "2theta" ELSE "energy"}

\* Peaks.intensity_factors(material, b, q, plot, x_axis): qs is the sequence
\* of q values.  i_lp is the scalar 1 in edxd mode and flux the scalar 1 in
\* mono mode; with plot the factors are drawn and None is returned.
intensity_factors(self, material, b, qs, plot, x_axis) ==
    IF x_axis \notin valid(self)
    THEN [err |-> "AssertionError"]
    ELSE IF material \notin DOMAIN AtomicNumber
    THEN [err |-> "UnknownMaterialError"]
    ELSE IF plot
    THEN [err |-> "none", returned |-> "None"]
    ELSE [err  |-> "none", returned |-> "tuple",
          i_lp |-> IF self.method = "mono"
                   THEN [k \in 1..Len(qs) |->
                           lp_factor(q_to_tth(qs[k], self.energy))]
                   ELSE 1,
          i_sf |-> [k \in 1..Len(qs) |-> scattering_factor(material, qs[k])],
          i_tf |-> [k \in 1..Len(qs) |-> temperature_factor(qs[k], b)],
          flux |-> IF self.method = "edxd"
                   THEN [k \in 1..Len(qs) |-> flux_q(self, qs[k])]
                   ELSE 1]

\* store_peaks, extending the material's entry instead of replacing it
store_peaks_append(self, material, q0_, hkl_) ==
    [self EXCEPT
       !.q0  = Put(@, material,
                   (IF material \in DOMAIN @ THEN @[material] ELSE <<>>) \o q0_),
       !.hkl = Put(@, material,
                   (IF material \in DOMAIN @ THEN @[material] ELSE <<>>) \o hkl_),
       !.keys.q0  = PutKey(@, material),
       !.keys.hkl = PutKey(@, material)]

\* self.q0[material], self.hkl[material] = q0, hkl
store_peaks(self, material, q0_, hkl_) ==
    [self EXCEPT !.q0 = Put(@, material, q0_), !.hkl = Put(@, material, hkl_),
                 !.keys.q0  = PutKey(@, material),
                 !.keys.hkl = PutKey(@, material)]

\* store_fit, without the assignment to self.sigma
store_fit_no_sigma(self, material, sigma_, peak_height) ==
    [self EXCEPT !.a = Put(@, material, peak_height),
                 !.keys.a = PutKey(@, material)]

\* self.sigma[material] = sigma; self.a[material] = peak_height
store_fit(self, material, sigma_, peak_height) ==
    [self EXCEPT !.sigma = Put(@, material, sigma_),
                 !.a     = Put(@, material, peak_height),
                 !.keys.sigma = PutKey(@, material),
                 !.keys.a     = PutKey(@, material)]

\* Peaks.add_peaks(material, b, weight): the object after the call, and how
\* the call ended
add_peaks(self, material, b, weight) ==
    LET s1 == [self EXCEPT !.materials = SetMaterial(@, material, b, weight)]
        pd == peak_details(SetMax(Range(s1.q_range)), material)
    IN  IF pd.err # "none"
        THEN [self |-> s1, err |-> pd.err]
        ELSE
        LET n   == Len(pd.peaks)
            q0_ == [k \in 1..n |-> pd.peaks[k].q]
            m   == [k \in 1..n |-> pd.peaks[k].m]
            s2  == store_peaks(s1, material, q0_,
                               [k \in 1..n |-> pd.peaks[k].hkl])
            f   == intensity_factors(s2, material, b, q0_, FALSE, "q")
            \* a scalar factor broadcasts over the peaks
            i_lp(k) == IF self.method = "mono" THEN f.i_lp[k] ELSE f.i_lp
            flux(k) == IF self.method = "edxd" THEN f.flux[k] ELSE f.flux
            integrated_intensity ==
                [k \in 1..n |->
                    f.i_sf[k] * m[k] * f.i_tf[k] * i_lp(k) * flux(k) * weight]
            sigma_ == [k \in 1..n |-> sigma_q(s2, q0_[k])]
            \* integrated_intensity / (sigma * (2 * np.pi) ** 0.5)
            peak_height ==
                [k \in 1..n |-> (2 * integrated_intensity[k]) \div (5 * sigma_[k])]
        IN  IF f.err # "none"
            THEN [self |-> s2, err |-> f.err]
            ELSE [self |-> store_fit(s2, material, sigma_, peak_height),
                  err  |-> "none"]

\* for material in self.materials: self.add_peaks(material, b, weight),
\* from the k-th material on
RECURSIVE readd_from(_, _)
readd_from(self, k) ==
    IF k > Len(self.materials)
    THEN [self |-> self, err |-> "none"]
    ELSE LET mat == self.materials[k]
             r   == add_peaks(self, mat.name, mat.b, mat.weight)
         IN  IF r.err # "none" THEN r ELSE readd_from(r.self, k + 1)

\* MonoDetector.new_setup(energy, sample_detector)
new_setup(self, e, sample_detector) ==
    LET det == detector_setup(self.detector, e, sample_detector)
        s1  == [self EXCEPT !.detector = det,
                            !.q_range  = linspace(det_q_max(det),
                                                  det_r_max(det.shape))]
    IN  readd_from(s1, 1)

\* MonoDetector.__init__(detector_shape, pixel_size, sample_to_detector,
\*                       energy, delta_energy)
MonoDetector(shape, sample_to_detector, e, de) ==
    LET det == detector_setup([shape |-> shape], e, sample_to_detector)
        qr  == linspace(det_q_max(det), det_r_max(shape))
    IN  [method |-> "mono", energy |-> e,
         two_theta |-> [k \in 1..Len(qr) |-> q_to_tth(qr[k], e)],
         delta_energy |-> de, detector |-> det, q_range |-> qr,
         materials |-> <<>>, q0 |-> EmptyDict, hkl |-> EmptyDict,
         a |-> EmptyDict, sigma |-> EmptyDict, keys |-> EmptyKeys]

\* EnergyDetector.__init__(two_theta, beamline='i12')
EnergyDetector(tth) ==
    LET q == [k \in 1..Len(edxd_info.energy) |-> e_to_q(edxd_info.energy[k], tth)]
    IN  [method |-> "edxd", energy |-> edxd_info.energy, two_theta |-> tth,
         delta_energy |-> 0, detector |-> "none",
         q_range |-> linspace(SetMax(Range(q)), edxd_info.bins),
         materials |-> <<>>, q0 |-> EmptyDict, hkl |-> EmptyDict,
         a |-> EmptyDict, sigma |-> EmptyDict, keys |-> EmptyKeys]

\* the object s becomes the state
Becomes(s) ==
    /\ method' = s.method
    /\ energy' = s.energy
    /\ two_theta' = s.two_theta
    /\ delta_energy' = s.delta_energy
    /\ detector' = s.detector
    /\ q_range' = s.q_range
    /\ materials' = s.materials
    /\ q0' = s.q0
    /\ hkl' = s.hkl
    /\ a' = s.a
    /\ sigma' = s.sigma
    /\ keys' = s.keys

object == <<method, energy, two_theta, delta_energy, detector, q_range,
            materials, q0, hkl, a, sigma, keys>>

(***************************************************************************)
(* Synthesis.                                                              *)
(***************************************************************************)
\* normaliser, taking the maximum of the noiseless sum
normaliser_noiseless(i_total, total) ==
    SetMax({100 * i_total[k] : k \in 1..Len(i_total)})

\* np.max(i_total + background), the divisor of every curve
normaliser(i_total, total) == SetMax(Range(total))

\* the arrays np.random.rand may return to intensity, up to the result of the
\* call: none is drawn when the axis check fails, and the product with a
\* background of 0, or with the scalar 0.0 of an empty registry, is 0
intensity_draws(self, x_axis, background) ==
    IF x_axis \notin valid(self) \/ background = 0 \/ DOMAIN self.q0 = {}
    THEN {[k \in 1..Len(self.q_range) |-> 0]}
    ELSE rand(Len(self.q_range))

\* Peaks.intensity(x_axis, background, strain_tensor, phi), with the array
\* `noise` drawn by np.random.rand; numerators are over 100 (background in
\* fiftieths times a sample in halves)
intensity(self, x_axis, background, strain_tensor, phi, noise) ==
    IF x_axis \notin valid(self)
    THEN [op |-> "intensity", err |-> "AssertionError", x_axis |-> x_axis]
    ELSE
    LET strain == strain_trans(strain_tensor[1], strain_tensor[2],
                               strain_tensor[3], phi)
        n    == Len(self.q_range)
        mats == DOMAIN self.q0
        i    == [mat \in mats |->
                   [k \in 1..n |->
                      strained_gaussians(self.q_range[k], self.a[mat],
                                         self.q0[mat], self.sigma[mat], strain)]]
        ks   == KeysInOrder(self, "q0")
        \* np.sum([i[mat] for mat in i], axis=0)
        i_total == [k \in 1..n |-> SeqSum([j \in 1..Len(ks) |-> i[ks[j]][k]])]
        i_max   == SetMax(Range(i_total))
        total   == [k \in 1..n |->
                      100 * i_total[k] + background * noise[k] * i_max]
        x == IF x_axis = "q" THEN self.q_range
             ELSE [k \in 1..n |-> convert(self, self.q_range[k])]
    IN  IF mats = {}
        \* np.sum([], axis=0) is the scalar 0.0, and 0.0 / 0.0 is nan
        THEN [op |-> "intensity", err |-> "none", x_axis |-> x_axis, x |-> x,
              i |-> [key \in {"total"} |-> 0], den |-> 0]
        ELSE [op |-> "intensity", err |-> "none", x_axis |-> x_axis, x |-> x,
              i |-> [key \in mats \cup {"total"} |->
                       IF key = "total" THEN total
                       ELSE [k \in 1..n |-> 100 * i[key][k]]],
              den |-> normaliser(i_total, total)]

\* Peaks.relative_heights()
relative_heights(self) ==
    IF DOMAIN self.q0 = {}
    \* np.concatenate([]): need at least one array to concatenate
    THEN [op |-> "relative_heights", err |-> "ValueError"]
    ELSE
    LET q0_   == Flatten(self, "q0")
        a_    == Flatten(self, "a")
        sig_  == Flatten(self, "sigma")
        a_max == SetMax({strained_gaussians(q0_[k], a_, q0_, sig_, 0) :
                            k \in 1..Len(q0_)})
    IN  [op |-> "relative_heights", err |-> "none",
         a_rel |-> [mat \in DOMAIN self.a |->
                      [k \in 1..Len(self.q0[mat]) |->
                         strained_gaussians(self.q0[mat][k], self.a[mat],
                                            self.q0[mat], self.sigma[mat], 0)]],
         den |-> a_max]

\* crop = [int(crop * i / 2) for i in self.detector.shape]
crop_list(shape, crop) == <<(crop * shape[1]) \div 8, (crop * shape[2]) \div 8>>

\* the indices (from 1) that the slice [c:-c] keeps of a dimension of size n
slice(c, n) == IF c = 0 THEN <<>> ELSE [k \in 1..(n - 2 * c) |-> c + k]

\* the arrays np.random.rand(*phi.shape) may return to rings, up to the
\* result of the call: none is drawn when the call fails before the draw, and
\* the product with a background of 0 is 0
rings_draws(self, crop, background, list_index) ==
    LET c == crop_list(self.detector.shape, crop)
        n == Len(slice(c[1], self.detector.shape[1]))
               * Len(slice(c[2], self.detector.shape[2]))
    IN  IF c[1] = 0 \/ DOMAIN self.q0 = {} \/ list_index = "array"
           \/ background = 0
        THEN {[k \in 1..n |-> 0]}
        ELSE rand(n)

\* MonoDetector.rings(exclude_criteria, crop, background, strain_tensor), with
\* the way numpy reads the index [mask] and the array `noise` drawn by
\* np.random.rand; numerators are over 100 * a_max
rings(self, exclude_criteria, crop, background, strain_tensor, list_index, noise) ==
    LET c == crop_list(self.detector.shape, crop) IN
    IF c[1] = 0
    \* crop = [None, None], and -crop[0] is a bad operand type for unary -
    THEN [op |-> "rings", err |-> "TypeError", crop |-> crop]
    ELSE IF DOMAIN self.q0 = {}
    \* np.concatenate([]): need at least one array to concatenate
    THEN [op |-> "rings", err |-> "ValueError", crop |-> crop]
    ELSE IF list_index = "array"
    \* a[ex] with ex = [mask]: too many indices for a one-dimensional array
    THEN [op |-> "rings", err |-> "IndexError", crop |-> crop]
    ELSE
    LET rows  == slice(c[1], self.detector.shape[1])
        cols  == slice(c[2], self.detector.shape[2])
        q0_   == Flatten(self, "q0")
        a_    == Flatten(self, "a")
        sig_  == Flatten(self, "sigma")
        a_max == SetMax({strained_gaussians(q0_[k], a_, q0_, sig_, 0) :
                            k \in 1..Len(q0_)})
        \* ex = [a > exclude_criteria * np.max(a_max)]; a[ex] keeps the peaks
        \* the mask selects
        ex    == SelectSeq([k \in 1..Len(a_) |-> k],
                           LAMBDA k : 100 * a_[k] > exclude_criteria * a_max)
        pick(s) == [k \in 1..Len(ex) |-> s[ex[k]]]
        strain(r, cl) ==
            strain_trans(strain_tensor[1], strain_tensor[2], strain_tensor[3],
                         det_phi(self.detector.shape, rows[r], cols[cl]))
        img == [r \in 1..Len(rows) |-> [cl \in 1..Len(cols) |->
                  100 * strained_gaussians(
                            det_q(self.detector, rows[r], cols[cl]),
                            pick(a_), pick(q0_), pick(sig_), strain(r, cl))
                  + noise[(r - 1) * Len(cols) + cl] * background * a_max]]
    IN  IF Len(rows) = 0 \/ Len(cols) = 0
        \* np.nanmax of a zero-size array
        THEN [op |-> "rings", err |-> "ValueError", crop |-> crop]
        ELSE [op |-> "rings", err |-> "none", crop |-> crop,
              shape |-> <<Len(rows), Len(cols)>>, img |-> img,
              den |-> IF a_max = 0 THEN 0
                      ELSE SetMax(UNION {Range(img[r]) : r \in 1..Len(rows)})]

\* energy_rings, as a stub that returns an empty image
energy_rings_stub(self) ==
    [op |-> "rings", err |-> "none", crop |-> 0, shape |-> <<0, 0>>,
     img |-> <<>>, den |-> 0]

\* EnergyDetector defines no rings, and neither does Peaks: the attribute
\* lookup fails before anything runs
energy_rings(self) == [op |-> "rings", err |-> "AttributeError"]

\* the object s, just constructed
Constructed(s) ==
    /\ method = s.method
    /\ energy = s.energy
    /\ two_theta = s.two_theta
    /\ delta_energy = s.delta_energy
    /\ detector = s.detector
    /\ q_range = s.q_range
    /\ materials = s.materials
    /\ q0 = s.q0
    /\ hkl = s.hkl
    /\ a = s.a
    /\ sigma = s.sigma
    /\ keys = s.keys
    /\ result = [op |-> "init", err |-> "none"]
    /\ calls = 0
    /\ repeated = FALSE

Init ==
    \/ \E sh \in Shapes, d \in InitDistances, e \in Energies,
          de \in DeltaEnergies : Constructed(MonoDetector(sh, d, e, de))
    \/ Constructed(EnergyDetector(24))

Call ==
    /\ calls < MaxCalls
    /\ calls' = calls + 1

\* a call that reads the object and leaves it alone
Reads ==
    /\ UNCHANGED object
    /\ repeated' = FALSE

AddPeaks ==
    /\ Call
    /\ \E material \in Names, bw \in PeakArgs :
        LET r == add_peaks(Self, material, bw[1], bw[2])
        IN  /\ Becomes(r.self)
            /\ result' = [op |-> "add_peaks", err |-> r.err,
                          material |-> material, b |-> bw[1], weight |-> bw[2]]
            /\ repeated' = /\ result.op = "add_peaks"
                           /\ result.material = material
                           /\ result.b = bw[1]
                           /\ result.weight = bw[2]

NewSetup ==
    /\ Call
    /\ method = "mono"
    /\ \E e \in Energies, sample_detector \in Distances :
        LET r == new_setup(Self, e, sample_detector)
        IN  /\ Becomes(r.self)
            /\ result' = [op |-> "new_setup", err |-> r.err,
                          energy |-> e, distance |-> sample_detector]
            /\ repeated' = FALSE

IntensityFactors ==
    /\ Call
    /\ \E material \in Names, b \in BFactors, plot \in Plots, x_axis \in Axes :
        LET f == intensity_factors(Self, material, b, q_range, plot, x_axis)
        IN  result' = IF f.err # "none"
                      THEN [op |-> "intensity_factors", err |-> f.err,
                            x_axis |-> x_axis]
                      ELSE IF plot
                      THEN [op |-> "intensity_factors", err |-> "none",
                            x_axis |-> x_axis, returned |-> f.returned]
                      ELSE [op |-> "intensity_factors", err |-> "none",
                            x_axis |-> x_axis, returned |-> f.returned,
                            factors |-> <<f.i_lp, f.i_sf, f.i_tf, f.flux>>]
    /\ Reads

Intensity ==
    /\ Call
    /\ \E x_axis \in Axes, args \in IntensityArgs :
        \E noise \in intensity_draws(Self, x_axis, args[1]) :
            result' = intensity(Self, x_axis, args[1], args[2], args[3], noise)
    /\ Reads

RelativeHeights ==
    /\ Call
    /\ result' = relative_heights(Self)
    /\ Reads

\* MonoDetector.rings
Rings ==
    /\ Call
    /\ method = "mono"
    /\ \E exclude_criteria \in Excludes, crop \in Crops,
          background \in Backgrounds, strain_tensor \in StrainTensors,
          list_index \in ListIndexing :
        \E noise \in rings_draws(Self, crop, background, list_index) :
            result' = rings(Self, exclude_criteria, crop, background,
                            strain_tensor, list_index, noise)
    /\ Reads

\* EnergyDetector has no rings: the attribute lookup fails
RingsEnergy ==
    /\ Call
    /\ method = "edxd"
    /\ result' = energy_rings(Self)
    /\ Reads

Next ==
    \/ AddPeaks
    \/ NewSetup
    \/ IntensityFactors
    \/ Intensity
    \/ RelativeHeights
    \/ Rings
    \/ RingsEnergy

Spec == Init /\ [][Next]_vars

(***************************************************************************)
(* The failures of the specification's taxonomy, as the code raises them.  *)
(***************************************************************************)
\* assert x_axis in valid, error
AxisModeError == "AssertionError"

\* no rings attribute on an EnergyDetector
NotSupportedError == "AttributeError"

\* raised by peak_details
UnknownMaterialError == "UnknownMaterialError"

\* no statement of the code raises it
EmptyModelError == "EmptyModelError"

(***************************************************************************)
(* Claims.                                                                 *)
(***************************************************************************)
registry == <<materials, q0, hkl, a, sigma>>

QMax == SetMax(Range(q_range))

\* C1: when add_peaks fails in the peak lookup, the failure reaches the caller
\* and materials, q0, hkl, a and sigma are exactly as before the call.
C1_FailedAddPeaksLeavesRegistry ==
    [][(calls' = calls + 1 /\ result'.op = "add_peaks" /\ result'.err # "none")
        => /\ result'.err = UnknownMaterialError
           /\ registry' = registry]_vars

\* a fresh MonoDetector at (e, distance) on which the materials mats are added
\* in order with their b and weight
RECURSIVE AddAll(_, _, _)
AddAll(self, mats, k) ==
    IF k > Len(mats) THEN self
    ELSE AddAll(add_peaks(self, mats[k].name, mats[k].b, mats[k].weight).self,
                mats, k + 1)

Fresh(e, distance) ==
    AddAll(MonoDetector(detector.shape, distance, e, delta_energy), materials, 1)

\* C2: after new_setup(energy', distance') the stored q_range and every
\* material's q0, a, sigma and hkl are those of a fresh MonoDetector built with
\* energy' and distance' on which the same materials were added, and the
\* energy used by the widths, factors and conversion is energy'.
C2_NewSetupMatchesFresh ==
    (result.op = "new_setup" /\ result.err = "none" /\ materials # <<>>)
        => LET f == Fresh(result.energy, result.distance)
           IN  /\ q_range = f.q_range
               /\ q0 = f.q0
               /\ hkl = f.hkl
               /\ a = f.a
               /\ sigma = f.sigma
               /\ energy = f.energy

AxisCompatible(m, x_axis) ==
    \/ x_axis = "q"
    \/ m = "mono" /\ x_axis = "2theta"
    \/ m = "edxd" /\ x_axis = "energy"

\* C3: intensity and intensity_factors accept 'q' in both modes, '2theta' only
\* in mono mode and 'energy' only in edxd mode; any other axis fails with the
\* axis-mode error, returns nothing and leaves the object unchanged.
C3_AxisCheck ==
    [][(calls' = calls + 1 /\ result'.op \in {"intensity", "intensity_factors"})
        => /\ result'.err = AxisModeError
                <=> ~AxisCompatible(method, result'.x_axis)
           /\ result'.err = AxisModeError
                => /\ DOMAIN result' = {"op", "err", "x_axis"}
                   /\ object' = object]_vars

C3_Witness ==
    /\ result.op = "intensity"
    /\ method = "mono"
    /\ result.x_axis = "energy"
    /\ result.err = AxisModeError
    /\ DOMAIN q0 # {}

\* C4: with an empty registry, or a zero maximum to normalise by, intensity,
\* rings and relative_heights fail with EmptyModelError; none returns NaN or
\* fails with another error.
C4_EmptyModelError ==
    (/\ result.op \in {"intensity", "rings", "relative_heights"}
     /\ result.err \notin {AxisModeError, NotSupportedError}
     /\ \/ DOMAIN q0 = {}
        \/ result.err = "none" /\ result.den = 0)
        => result.err = EmptyModelError

\* C5: q0, hkl, a and sigma have the same material keys, and for every
\* material the four sequences have the same length.
C5_PeakSetsAligned ==
    /\ DOMAIN q0 = DOMAIN hkl
    /\ DOMAIN q0 = DOMAIN a
    /\ DOMAIN q0 = DOMAIN sigma
    /\ \A mat \in DOMAIN q0 :
          /\ Len(q0[mat]) = Len(hkl[mat])
          /\ Len(q0[mat]) = Len(a[mat])
          /\ Len(q0[mat]) = Len(sigma[mat])

\* new_setup recomputed one material and failed on the next
C5_Witness ==
    /\ result.op = "new_setup"
    /\ result.err # "none"
    /\ \E m1, m2 \in DOMAIN q0 :
          /\ m1 # m2
          /\ \A k \in 1..Len(q0[m1]) : q0[m1][k] < QMax
          /\ \E k \in 1..Len(q0[m2]) : q0[m2][k] >= QMax
          /\ Len(q0[m1]) < Len(PeakTable[m1])

\* C6: add_peaks called twice in a row with the same arguments leaves the
\* registry as the first call left it; an add_peaks for a registered material
\* overwrites its b and weight in place, leaves the other materials' entries
\* alone, and stores exactly the reflections the lookup returns (the peak set
\* is replaced, never lengthened).
C6_AddPeaksIdempotent ==
    [][(calls' = calls + 1 /\ result'.op = "add_peaks")
        => LET mat   == result'.material
               known == {materials[k].name : k \in 1..Len(materials)}
               found == {k \in 1..Len(PeakTable[mat]) :
                            PeakTable[mat][k].q < SetMax(Range(q_range'))}
           IN  /\ repeated' => (registry' = registry /\ result'.err = result.err)
               /\ Len(materials') = Len(materials) + (IF mat \in known THEN 0 ELSE 1)
               /\ \E k \in 1..Len(materials') :
                     materials'[k] = [name |-> mat, b |-> result'.b,
                                      weight |-> result'.weight]
               /\ \A k \in 1..Len(materials) :
                     materials[k].name # mat => materials'[k] = materials[k]
               /\ \A other \in DOMAIN q0 \ {mat} :
                     /\ q0'[other] = q0[other]
                     /\ hkl'[other] = hkl[other]
                     /\ a'[other] = a[other]
                     /\ sigma'[other] = sigma[other]
               /\ result'.err = "none"
                     => /\ Len(q0'[mat]) = Cardinality(found)
                        /\ Len(hkl'[mat]) = Cardinality(found)
                        /\ Len(a'[mat]) = Cardinality(found)
                        /\ Len(sigma'[mat]) = Cardinality(found)]_vars

\* the same successful add_peaks, made twice in a row on a registry of two
C6_Witness ==
    /\ result.op = "add_peaks"
    /\ result.err = "none"
    /\ repeated
    /\ Len(materials) = 2

\* the sum of the per-material curves of an intensity result, at sample k
NoiselessSum(k) ==
    LET ks == KeysInOrder(Self, "q0")
    IN  SeqSum([j \in 1..Len(ks) |-> result.i[ks[j]][k]])

IntensityReturned ==
    /\ result.op = "intensity"
    /\ result.err = "none"
    /\ DOMAIN q0 # {}
    /\ result.den # 0

IntensityShape ==
    /\ DOMAIN result.i = DOMAIN q0 \cup {"total"}
    /\ Len(result.x) = Len(q_range)
    /\ \A key \in DOMAIN result.i : Len(result.i[key]) = Len(q_range)
    /\ \E k \in 1..Len(q_range) : result.i["total"][k] = result.den
    /\ \A k \in 1..Len(q_range) :
          /\ result.i["total"][k] <= result.den
          /\ NoiselessSum(k) <= result.i["total"][k]
          /\ \A mat \in DOMAIN q0 :
                0 <= result.i[mat][k] /\ result.i[mat][k] <= NoiselessSum(k)

\* C7 (as claimed): intensity returns the axis and one curve per material with
\* a peak set plus "total", each as long as q_range; the total curve is
\* strictly positive with maximum exactly 1.0, and every material's curve is
\* between 0 and the normalised noiseless sum.
C7_TotalStrictlyPositive ==
    IntensityReturned
        => /\ IntensityShape
           /\ \A k \in 1..Len(q_range) : result.i["total"][k] > 0

\* C7 (amended): as claimed, but the total curve is non-negative, and strictly
\* positive wherever some material's curve is; it is 0 at a sample where every
\* Gaussian has vanished and the background term is 0.
C7_TotalNonNegative ==
    IntensityReturned
        => /\ IntensityShape
           /\ \A k \in 1..Len(q_range) :
                 /\ result.i["total"][k] >= 0
                 /\ NoiselessSum(k) > 0 => result.i["total"][k] > 0

\* two materials, the secondary axis, and a sample where the total is 0
C7_Witness ==
    /\ IntensityReturned
    /\ Cardinality(DOMAIN q0) = 2
    /\ result.x_axis = "2theta"
    /\ \E k \in 1..Len(q_range) : result.i["total"][k] = 0

\* C8: rings on an EnergyDetector fails with the not-supported error, returns
\* no image and leaves the object unchanged.
C8_NoRingsOnEnergyDetector ==
    [][(calls' = calls + 1 /\ result'.op = "rings" /\ method = "edxd")
        => /\ result'.err = NotSupportedError
           /\ DOMAIN result' = {"op", "err"}
           /\ object' = object]_vars

C8_Witness ==
    /\ result.op = "rings"
    /\ method = "edxd"
    /\ result.err = NotSupportedError
    /\ DOMAIN q0 # {}

\* C9: rings(crop) on a MonoDetector with peaks succeeds for every shape
\* (H, W) and crop, and the image has shape (H - 2 cH, W - 2 cW) with
\* cH = floor(crop * H / 2) and cW = floor(crop * W / 2), never empty.
C9_RingsCropShape ==
    (result.op = "rings" /\ method = "mono" /\ DOMAIN q0 # {})
        => LET H  == detector.shape[1]
               W  == detector.shape[2]
               cH == (result.crop * H) \div 8
               cW == (result.crop * W) \div 8
           IN  /\ result.err = "none"
               /\ result.shape = <<H - 2 * cH, W - 2 * cW>>
               /\ result.shape[1] > 0 /\ result.shape[2] > 0

\* C10: every material of `materials` has a peak set, every stored q0 is at
\* most max(q_range), and every material's peak set is the one the lookup
\* gives for the current q_range.
C10_PeaksMatchGeometry ==
    /\ \A k \in 1..Len(materials) : materials[k].name \in DOMAIN q0
    /\ \A mat \in DOMAIN q0 :
          /\ \A k \in 1..Len(q0[mat]) : q0[mat][k] <= QMax
          /\ LET pd == peak_details(QMax, mat)
             IN  /\ pd.err = "none"
                 /\ q0[mat] = [k \in 1..Len(pd.peaks) |-> pd.peaks[k].q]

====
